---------------------------- MODULE Spec2Model ----------------------------
(***************************************************************************)
(* Model of the reserve sampler of the localstore (DB.ReserveSample and    *)
(* the sampler run state startSampling / stopSamplingIfRunning /           *)
(* resetSamplingState), and of the stampers of the postage package         *)
(* (stamper.Stamp and presignedStamper.Stamp).                             *)
(*                                                                         *)
(* Go's select is modelled as a choice among the cases that are ready at   *)
(* the moment the select fires; since a goroutine may be delayed for any   *)
(* time before it reaches its select, this yields exactly the              *)
(* communication orders the Go runtime can produce.  Unbuffered channels   *)
(* are rendezvous: one action moves the sender and the receiver.           *)
(***************************************************************************)
EXTENDS Integers, Sequences, FiniteSets, Bags, TLC

(***************************************************************************)
(* Bounds.  sampleSize is 16 and workers is 6 in the source; both are      *)
(* scaled down here, the algorithm is parametric in them.                  *)
(***************************************************************************)
NumChunks == 3

MaxData == 3

sampleSize == 2

workers == 2

\* consensusTime parameter of ReserveSample; chunk timestamps are drawn
\* around it (before, equal, after).
consensusTime == 2

\* anchor parameter of ReserveSample, the key of the transformed hash.
anchor == 3

VARIABLES
  reserve,        \* the chunks the index iteration yields, in iteration order
  pc,             \* position of the caller of ReserveSample (Stage C)
  sampleItems,    \* Stage C's sample buffer (sequence of chunk positions)
  iterPc,         \* Stage A goroutine: "off", "run", "done"
  iterPos,        \* next position of the index iteration
  wk,             \* Stage B goroutines: the bag of their states; a state is
                  \* "recv", "fetch", "select" or "done" and the address held
  gerr,           \* the error group's first error
  ctxDone,        \* the error group's derived context is cancelled
  dbClosed,       \* db.close is closed
  samplerStop,    \* db.samplerStop: "nil", "armed" (fresh Once), "fired"
  samplerSignal,  \* db.samplerSignal: "nil", "open", "closed"
  closeCount,     \* number of close(sampleItemChan) executed in this run
  ret,            \* what the last ReserveSample call returned
  lastSample,     \* the sample returned by an earlier call, if any
  cancelled,      \* the caller cancelled its context: "no", "iterating" (Stage A
                  \* had addresses left to send), "later"
  stoppedInRun,   \* stopSamplingIfRunning closed the signal while Stage A
                  \* had addresses left to send
  metrics,        \* db.metrics: the Inc() calls the current run made on each
                  \* sampler counter
  callerPc,       \* concurrent callers of ReserveSample: position of each
  callerSaw,      \* what the pipeline of each caller read from db.samplerSignal
  lockSampling,   \* holder of db.lock's lockKeySampling, 0 when free
  evictPc,        \* the evicting goroutine that calls stopSamplingIfRunning
  baseKey,        \* the node's own address
  storageRadius,  \* the storageRadius parameter of ReserveSample
  startFrom,      \* the address the index iteration starts from
  pullIndex,      \* the addresses held by the reserve index
  yielded,        \* the addresses the index iteration has passed to the visitor
  lastYield,      \* the last address yielded, -1 before the first
  stStore,        \* the stamp store: the StampItem kept for each chunk address
  buckets,        \* the bucket counters of each issuer object
  issuerMtx,      \* holder of each issuer object's mtx, 0 when free
  stampLocker,    \* holder of StampLocker's key of the batch, 0 when free
  now,            \* the clock unixTime reads
  stCalls,        \* number of Stamp calls started
  stPc,           \* position of each goroutine that calls Stamp
  stIssuer,       \* the issuer object of each goroutine's stamper
  stAddr,         \* the chunk address of the call
  stItem,         \* the StampItem of the call
  stPath,         \* what the call's store.Get found: "none" before it
  stRet,          \* what the goroutine's last Stamp call returned
  stBefore,       \* the issuer's counters and the stored item the call found
  psStamp,        \* presigned stamper: the stamp provided
  psOwner,        \* presigned stamper: the declared owner
  psAddr,         \* the chunk address of the last presigned Stamp call
  psRet,          \* what the last presigned Stamp call returned
  authNow,        \* auth: the clock time.Now() reads, in seconds
  authKeys,       \* auth: the API keys issued so far
  authRet,        \* auth: the last call, its arguments and what it returned
  socPc,          \* socUploadHandler: position of the handler
  socReq,         \* socUploadHandler: the request being handled
  socTrace        \* socUploadHandler: what the handler did so far, in order

pipeVars == <<reserve, pc, sampleItems, iterPc, iterPos, wk, gerr,
              ctxDone, dbClosed, samplerStop, samplerSignal, closeCount, ret,
              lastSample, cancelled, stoppedInRun, metrics>>

runVars == <<callerPc, callerSaw, lockSampling, evictPc>>

iterVars == <<baseKey, storageRadius, startFrom, pullIndex, yielded, lastYield>>

stampVars == <<stStore, buckets, issuerMtx, stampLocker, now, stCalls, stPc,
               stIssuer, stAddr, stItem, stPath, stRet, stBefore>>

presignedVars == <<psStamp, psOwner, psAddr, psRet>>

authVars == <<authNow, authKeys, authRet>>

socVars == <<socPc, socReq, socTrace>>

vars == <<pipeVars, runVars, iterVars, stampVars, presignedVars, authVars,
          socVars>>

\* what the pipeline of ReserveSample leaves alone
restVars == <<runVars, iterVars, stampVars, presignedVars, authVars, socVars>>

Chunks == 1..NumChunks

-----------------------------------------------------------------------------
(***************************************************************************)
(* Reserve contents.  A chunk is what db.get returns for an address of the *)
(* index: found or not, its data, its stamp timestamp, whether the stamp   *)
(* marshals and validates, and whether the chunk is a valid CAC or SOC.    *)
(* The position of a chunk in the iteration order stands for its address.  *)
(***************************************************************************)
Chunk(d, t, f, s, v) ==
  [data |-> d, ts |-> t, found |-> f, stamp |-> s, valid |-> v]

\* An eligible chunk at position i.  Its timestamp alternates between the
\* consensus time itself and an earlier time.
GoodChunk(i, d, v) ==
  Chunk(d, IF i % 2 = 1 THEN consensusTime ELSE consensusTime - 1, TRUE, "ok", v)

Defects == {"missing", "new", "malformed", "badsig", "invalid"}

DefectChunk(i, k, d) ==
  CASE k = "missing"   -> Chunk(d, consensusTime, FALSE, "ok", "cac")
    [] k = "new"       -> Chunk(d, consensusTime + 1, TRUE, "ok", "cac")
    [] k = "malformed" -> Chunk(d, consensusTime, TRUE, "malformed", "cac")
    [] k = "badsig"    -> Chunk(d, consensusTime, TRUE, "badsig", "cac")
    [] OTHER           -> Chunk(d, consensusTime, TRUE, "ok", "none")

\* The reserves the model starts from: every assignment of data to the
\* chunks when all are eligible, and every position, kind and data of one
\* defective chunk among eligible chunks of distinct data.  Two addresses can
\* carry the same data only if one is the content address of the data and the other a
\* single-owner address (the serialisation of a single-owner chunk is itself
\* valid content-addressed data), so a data value occurs at most twice among
\* valid chunks: first as a CAC, then as a SOC.  The empty reserve is one of
\* them.
Reserves ==
  {<<>>} \cup
  { r \in [Chunks -> [data : 1..MaxData, defect : Defects \cup {"none"}]] :
      /\ Cardinality({i \in Chunks : r[i].defect # "none"}) <= 1
      /\ (\E i \in Chunks : r[i].defect # "none") =>
           \A j \in Chunks : r[j].defect = "none" => r[j].data = ((j - 1) % MaxData) + 1
      /\ \A i \in Chunks :
           Cardinality({j \in Chunks : r[j].data = r[i].data /\ r[j].defect = "none"}) <= 2 }

MkReserve(r) ==
  [i \in DOMAIN r |->
     IF r[i].defect # "none" THEN DefectChunk(i, r[i].defect, r[i].data)
     ELSE GoodChunk(i, r[i].data,
                    IF \E j \in 1..(i-1) : r[j].defect = "none" /\ r[j].data = r[i].data
                    THEN "soc" ELSE "cac")]

-----------------------------------------------------------------------------
(***************************************************************************)
(* Pure functions of the sampler.                                          *)
(***************************************************************************)

\* bmt.NewTrHasher(anchor): Write(data); Sum(nil).  A keyed hash: injective
\* on the data, and its order is unrelated to the order of the data.
TrHash(key, d) == (key * d) % 5

TransformedAddress(i) == TrHash(anchor, reserve[i].data)

\* bytes.Compare(a, b) == -1
le(a, b) == a < b

\* cac.Valid(ch) || soc.Valid(ch)
validChunk(c) == c.valid \in {"cac", "soc"}

\* stamp.MarshalBinary succeeds and db.validStamp returns no error
validStamp(c) == c.stamp = "ok"

MinOf(S) == CHOOSE x \in S : \A y \in S : x <= y

\* insert without the cut back to sampleSize
insertNoTruncate(items, item) ==
  LET before == { i \in 1..Len(items) :
                    le(TransformedAddress(item), TransformedAddress(items[i])) }
  IN  IF before # {}
      THEN LET i == MinOf(before)
           IN  SubSeq(items, 1, i - 1) \o <<item>> \o SubSeq(items, i, Len(items))
      ELSE IF Len(items) < sampleSize THEN Append(items, item) ELSE items

\* the insert closure of ReserveSample
insert(items, item) ==
  LET before == { i \in 1..Len(items) :
                    le(TransformedAddress(item), TransformedAddress(items[i])) }
      added  == before # {}
      s1 == IF added
            THEN LET i == MinOf(before)
                 IN  SubSeq(items, 1, i - 1) \o <<item>> \o SubSeq(items, i, Len(items))
            ELSE items
      s2 == IF Len(s1) > sampleSize THEN SubSeq(s1, 1, sampleSize) ELSE s1
  IN  IF Len(s2) < sampleSize /\ ~added THEN Append(s2, item) ELSE s2

\* the Phase 3 loop body without the validChunkFn check
Phase3NoValidChunk(items, item) ==
  LET currentMaxAddr == IF Len(items) > 0
                        THEN TransformedAddress(items[Len(items)])
                        ELSE 0
  IN  IF le(TransformedAddress(item), currentMaxAddr) \/ Len(items) < sampleSize
      THEN IF validStamp(reserve[item]) THEN insert(items, item) ELSE items
      ELSE items

\* the body of the Phase 3 loop for one received entry
Phase3(items, item) ==
  LET currentMaxAddr == IF Len(items) > 0
                        THEN TransformedAddress(items[Len(items)])
                        ELSE 0
  IN  IF le(TransformedAddress(item), currentMaxAddr) \/ Len(items) < sampleSize
      THEN IF reserve[item].stamp = "malformed" THEN items
           ELSE IF validStamp(reserve[item])
                THEN IF ~validChunk(reserve[item]) THEN items
                     ELSE insert(items, item)
                ELSE items
      ELSE items

RECURSIVE SampleContent(_)
\* sampleContent: chunk address followed by transformed address, per item
SampleContent(items) ==
  IF items = <<>> THEN <<>>
  ELSE <<Head(items), TransformedAddress(Head(items))>> \o SampleContent(Tail(items))

\* cac.New(sampleContent).Address(): the BMT hash of span and payload
CacAddress(content) == <<"bmt", Len(content), content>>

\* a Sample whose content holds the chunk addresses only
MkSampleAddressesOnly(items) ==
  [err |-> "nil", items |-> items, content |-> items,
   hash |-> CacAddress(items)]

MkSample(items) ==
  [err |-> "nil", items |-> items, content |-> SampleContent(items),
   hash |-> CacAddress(SampleContent(items))]

MkError(e) == [err |-> e, items |-> <<>>, content |-> <<>>, hash |-> <<>>]

NoRet == [err |-> "none", items |-> <<>>, content |-> <<>>, hash |-> <<>>]

\* no counter incremented
NoMetrics ==
  [SamplerSuccessfulRuns |-> 0, SamplerFailedRuns |-> 0, SamplerStopped |-> 0]

Inc(m, counter) == [m EXCEPT ![counter] = @ + 1]

\* a variant that counts a stopped run as stopped only
runMetricsStoppedApart(m, err) ==
  IF err = "stopped" THEN Inc(m, "SamplerStopped")
  ELSE IF err # "nil" THEN Inc(m, "SamplerFailedRuns")
  ELSE Inc(m, "SamplerSuccessfulRuns")

\* the counters after g.Wait() returned err: the error return counts a
\* failed run, and a stopped one if err is errSamplerStopped; the sample
\* return counts a successful run
runMetrics(m, err) ==
  IF err # "nil"
  THEN IF err = "stopped"
       THEN Inc(Inc(m, "SamplerFailedRuns"), "SamplerStopped")
       ELSE Inc(m, "SamplerFailedRuns")
  ELSE Inc(m, "SamplerSuccessfulRuns")

-----------------------------------------------------------------------------
(***************************************************************************)
(* The sampler run state.                                                  *)
(***************************************************************************)
startSampling ==
  /\ samplerStop' = "armed"
  /\ samplerSignal' = "open"

\* close(ch): closing a nil or closed channel panics
closeSignal(ch) == IF ch = "open" THEN "closed" ELSE "panic"

\* stopSamplingIfRunning with a plain close in place of the Once
stopSamplingNoOnce ==
  IF samplerStop # "nil"
  THEN samplerStop' = samplerStop /\ samplerSignal' = closeSignal(samplerSignal)
  ELSE UNCHANGED <<samplerStop, samplerSignal>>

stopSamplingIfRunning ==
  IF samplerStop # "nil"
  THEN IF samplerStop = "armed"
       THEN samplerStop' = "fired" /\ samplerSignal' = closeSignal(samplerSignal)
       ELSE UNCHANGED <<samplerStop, samplerSignal>>
  ELSE UNCHANGED <<samplerStop, samplerSignal>>

\* resetSamplingState that leaves the signal channel in place
resetSamplingStateKeepSignal ==
  /\ samplerStop' = "nil"
  /\ samplerSignal' = samplerSignal

resetSamplingState ==
  /\ samplerStop' = "nil"
  /\ samplerSignal' = "nil"

-----------------------------------------------------------------------------
(***************************************************************************)
(* The pipeline of one ReserveSample call.                                 *)
(***************************************************************************)
Running == pc \in {"phase3", "deferred"}

\* The state of one Stage B goroutine: where it is and the address it holds.
W(p, i) == [pc |-> p, item |-> i]

\* One Stage B goroutine moves from state s to state t.
Move(s, t) == wk' = (wk (-) SetToBag({s})) (+) SetToBag({t})

\* an error group that keeps the first error but cancels nothing
GoFailNoCancel(e) ==
  /\ gerr' = IF gerr = "nil" THEN e ELSE gerr
  /\ ctxDone' = ctxDone

\* A function passed to g.Go returns a non-nil error: the group keeps the
\* first error and cancels the derived context.
GoFail(e) ==
  /\ gerr' = IF gerr = "nil" THEN e ELSE gerr
  /\ ctxDone' = TRUE

\* ReserveSample up to the start of the Phase 3 loop: startSampling and the
\* launch of the iterator, the workers and the closing goroutine.
Launch ==
  /\ pc' = "phase3"
  /\ startSampling
  /\ sampleItems' = <<>>
  /\ iterPc' = "run"
  /\ iterPos' = 1
  /\ wk' = [s \in {W("recv", 0)} |-> workers]
  /\ gerr' = "nil"
  /\ ctxDone' = FALSE
  /\ closeCount' = 0
  /\ ret' = NoRet
  /\ metrics' = NoMetrics
  /\ UNCHANGED <<restVars, reserve, dbClosed, cancelled, stoppedInRun>>

Call ==
  /\ pc = "idle"
  /\ Launch
  /\ UNCHANGED lastSample

\* ReserveSample is called again after it returned a Sample, with the same
\* arguments; the Sample it returned before is remembered.
CallAgain ==
  /\ pc = "returned"
  /\ ret.err = "nil"
  /\ Launch
  /\ lastSample' = ret

\* Phase 1, select case addrChan <- address: rendezvous with a worker that
\* is receiving from addrChan.
IterSend ==
  /\ iterPc = "run"
  /\ iterPos <= Len(reserve)
  /\ BagIn(W("recv", 0), wk)
  /\ Move(W("recv", 0), W("fetch", iterPos))
  /\ iterPos' = iterPos + 1
  /\ UNCHANGED <<restVars, metrics, reserve, pc, sampleItems, iterPc, gerr,
                 ctxDone, dbClosed, samplerStop, samplerSignal, closeCount,
                 ret, lastSample, cancelled, stoppedInRun>>

\* Phase 1, the other select cases: the iteration stops with an error, the
\* goroutine closes addrChan and returns the error.
IterFail(e) ==
  /\ iterPc = "run"
  /\ iterPos <= Len(reserve)
  /\ iterPc' = "done"
  /\ GoFail(e)
  /\ UNCHANGED <<restVars, metrics, reserve, pc, sampleItems, iterPos, wk,
                 dbClosed, samplerStop, samplerSignal, closeCount, ret,
                 lastSample, cancelled, stoppedInRun>>

\* case <-ctx.Done(): return true, ctx.Err()
IterCtxDone == ctxDone /\ IterFail("ctx")

\* case <-db.close: return true, errDbClosed
IterDbClose == dbClosed /\ IterFail("dbclosed")

\* Phase 1: the iteration reached the end of the index; the goroutine
\* closes addrChan and returns nil.
IterFinish ==
  /\ iterPc = "run"
  /\ iterPos > Len(reserve)
  /\ iterPc' = "done"
  /\ UNCHANGED <<restVars, metrics, reserve, pc, sampleItems, iterPos, wk,
                 gerr, ctxDone, dbClosed, samplerStop, samplerSignal,
                 closeCount, ret, lastSample, cancelled, stoppedInRun>>

\* Phase 2 without the consensus-time gate
WorkerFetchNoGate(i) ==
  /\ BagIn(W("fetch", i), wk)
  /\ IF ~reserve[i].found THEN Move(W("fetch", i), W("recv", 0))
     ELSE Move(W("fetch", i), W("select", i))
  /\ UNCHANGED <<restVars, metrics, reserve, pc, sampleItems, iterPc, iterPos,
                 gerr, ctxDone, dbClosed, samplerStop, samplerSignal,
                 closeCount, ret, lastSample, cancelled, stoppedInRun>>

\* Phase 2 where a chunk that cannot be fetched ends the worker with an error
WorkerFetchAbort(i) ==
  /\ BagIn(W("fetch", i), wk)
  /\ LET c == reserve[i]
     IN  IF ~c.found
         THEN Move(W("fetch", i), W("done", 0)) /\ GoFail("notfound")
         ELSE /\ IF c.ts > consensusTime THEN Move(W("fetch", i), W("recv", 0))
                 ELSE Move(W("fetch", i), W("select", i))
              /\ UNCHANGED <<gerr, ctxDone>>
  /\ UNCHANGED <<restVars, metrics, reserve, pc, sampleItems, iterPc, iterPos,
                 dbClosed, samplerStop, samplerSignal,
                 closeCount, ret, lastSample, cancelled, stoppedInRun>>

\* Phase 2: db.get, the consensus-time gate and the transformed hash of
\* the address i a worker received.
WorkerFetch(i) ==
  /\ BagIn(W("fetch", i), wk)
  /\ LET c == reserve[i]
     IN  IF ~c.found THEN Move(W("fetch", i), W("recv", 0))
         ELSE IF c.ts > consensusTime THEN Move(W("fetch", i), W("recv", 0))
         ELSE Move(W("fetch", i), W("select", i))
  /\ UNCHANGED <<restVars, metrics, reserve, pc, sampleItems, iterPc, iterPos,
                 gerr, ctxDone, dbClosed, samplerStop, samplerSignal,
                 closeCount, ret, lastSample, cancelled, stoppedInRun>>

\* Phase 2: range addrChan ends because addrChan is closed; return nil.
WorkerExit ==
  /\ BagIn(W("recv", 0), wk)
  /\ iterPc = "done"
  /\ Move(W("recv", 0), W("done", 0))
  /\ UNCHANGED <<restVars, metrics, reserve, pc, sampleItems, iterPc, iterPos,
                 gerr, ctxDone, dbClosed, samplerStop, samplerSignal,
                 closeCount, ret, lastSample, cancelled, stoppedInRun>>

\* Phase 2, select case sampleItemChan <- entry, together with the body of
\* the Phase 3 loop that receives the entry.
WorkerSend(i) ==
  /\ BagIn(W("select", i), wk)
  /\ pc = "phase3"
  /\ closeCount = 0
  /\ sampleItems' = Phase3(sampleItems, i)
  /\ Move(W("select", i), W("recv", 0))
  /\ UNCHANGED <<restVars, metrics, reserve, pc, iterPc, iterPos, gerr,
                 ctxDone, dbClosed, samplerStop, samplerSignal, closeCount,
                 ret, lastSample, cancelled, stoppedInRun>>

\* Phase 2, the other select cases: each returns an error from the worker.
WorkerFail(i, e) ==
  /\ BagIn(W("select", i), wk)
  /\ Move(W("select", i), W("done", 0))
  /\ GoFail(e)
  /\ UNCHANGED <<restVars, metrics, reserve, pc, sampleItems, iterPc, iterPos,
                 dbClosed, samplerStop, samplerSignal, closeCount, ret,
                 lastSample, cancelled, stoppedInRun>>

\* case <-ctx.Done(): return ctx.Err()
WorkerCtxDone(i) == ctxDone /\ WorkerFail(i, "ctx")

\* case <-db.close: return errDbClosed
WorkerDbClose(i) == dbClosed /\ WorkerFail(i, "dbclosed")

\* case <-db.samplerSignal: return errSamplerStopped
WorkerStopped(i) == samplerSignal = "closed" /\ WorkerFail(i, "stopped")

AllReturned == iterPc = "done" /\ wk = [s \in {W("done", 0)} |-> workers]

\* The closing goroutine: g.Wait() returns once the iterator and all
\* workers returned, then close(sampleItemChan).
CloseSampleItemChan ==
  /\ Running
  /\ closeCount = 0
  /\ AllReturned
  /\ closeCount' = closeCount + 1
  /\ ctxDone' = TRUE
  /\ UNCHANGED <<restVars, metrics, reserve, pc, sampleItems, iterPc, iterPos,
                 wk, gerr, dbClosed, samplerStop, samplerSignal, ret,
                 lastSample, cancelled, stoppedInRun>>

\* The Phase 3 loop ends because sampleItemChan is closed; g.Wait() and the
\* assembly of the returned Sample or error.
Finish ==
  /\ pc = "phase3"
  /\ closeCount > 0
  /\ pc' = "deferred"
  /\ ret' = IF gerr # "nil" THEN MkError(gerr) ELSE MkSample(sampleItems)
  /\ metrics' = runMetrics(metrics, gerr)
  /\ UNCHANGED <<restVars, reserve, sampleItems, iterPc, iterPos, wk,
                 gerr, ctxDone, dbClosed, samplerStop, samplerSignal,
                 closeCount, lastSample, cancelled, stoppedInRun>>

\* defer db.resetSamplingState(); ReserveSample returns.
Return ==
  /\ pc = "deferred"
  /\ pc' = "returned"
  /\ resetSamplingState
  /\ UNCHANGED <<restVars, metrics, reserve, sampleItems, iterPc, iterPos, wk,
                 gerr, ctxDone, dbClosed, closeCount, ret, lastSample,
                 cancelled, stoppedInRun>>

\* Stage A is iterating and has addresses left to send.
StageAHasWork == pc = "phase3" /\ iterPc = "run" /\ iterPos <= Len(reserve)

\* The caller cancels the context it passed to ReserveSample.
Cancel ==
  /\ Running
  /\ ~ctxDone
  /\ ctxDone' = TRUE
  /\ cancelled' = IF StageAHasWork THEN "iterating" ELSE "later"
  /\ UNCHANGED <<restVars, metrics, reserve, pc, sampleItems, iterPc, iterPos, wk, gerr,
                 dbClosed, samplerStop, samplerSignal, closeCount, ret,
                 lastSample, stoppedInRun>>

\* The database is closed: close(db.close).
CloseDB ==
  /\ ~dbClosed
  /\ dbClosed' = TRUE
  /\ UNCHANGED <<restVars, metrics, reserve, pc, sampleItems, iterPc, iterPos, wk, gerr,
                 ctxDone, samplerStop, samplerSignal, closeCount, ret,
                 lastSample, cancelled, stoppedInRun>>

\* An eviction calls db.stopSamplingIfRunning().
Stop ==
  /\ stopSamplingIfRunning
  /\ stoppedInRun' = (stoppedInRun \/ (samplerStop = "armed" /\ StageAHasWork))
  /\ UNCHANGED <<restVars, metrics, reserve, pc, sampleItems, iterPc, iterPos, wk, gerr,
                 ctxDone, dbClosed, closeCount, ret, lastSample,
                 cancelled>>

\* Values of the variables a specification does not use.
RunsIdle ==
  /\ callerPc = <<>>
  /\ callerSaw = <<>>
  /\ lockSampling = 0
  /\ evictPc = "idle"

IterIdle ==
  /\ baseKey = 0
  /\ storageRadius = 0
  /\ startFrom = 0
  /\ pullIndex = {}
  /\ yielded = {}
  /\ lastYield = -1

StampIdle ==
  /\ stStore = <<>>
  /\ buckets = <<>>
  /\ issuerMtx = <<>>
  /\ stampLocker = 0
  /\ now = 0
  /\ stCalls = 0
  /\ stPc = <<>>
  /\ stIssuer = <<>>
  /\ stAddr = <<>>
  /\ stItem = <<>>
  /\ stPath = <<>>
  /\ stRet = <<>>
  /\ stBefore = <<>>

PresignedIdle ==
  /\ psStamp = <<>>
  /\ psOwner = 0
  /\ psAddr = 0
  /\ psRet = <<>>

AuthIdle ==
  /\ authNow = 0
  /\ authKeys = {}
  /\ authRet = <<>>

SocIdle ==
  /\ socPc = "off"
  /\ socReq = <<>>
  /\ socTrace = <<>>

PipeIdle(r) ==
  /\ reserve = r
  /\ pc = "idle"
  /\ sampleItems = <<>>
  /\ iterPc = "off"
  /\ iterPos = 1
  /\ wk = EmptyBag
  /\ gerr = "nil"
  /\ ctxDone = FALSE
  /\ dbClosed = FALSE
  /\ samplerStop = "nil"
  /\ samplerSignal = "nil"
  /\ closeCount = 0
  /\ ret = NoRet
  /\ lastSample = NoRet
  /\ cancelled = "no"
  /\ stoppedInRun = FALSE
  /\ metrics = NoMetrics

Init ==
  /\ \E r \in Reserves : PipeIdle(MkReserve(r))
  /\ RunsIdle
  /\ IterIdle
  /\ StampIdle
  /\ PresignedIdle
  /\ AuthIdle
  /\ SocIdle

Pipeline ==
  \/ IterSend
  \/ IterCtxDone
  \/ IterDbClose
  \/ IterFinish
  \/ \E i \in Chunks : WorkerFetch(i)
  \/ WorkerExit
  \/ \E i \in Chunks : WorkerSend(i)
  \/ \E i \in Chunks : WorkerCtxDone(i)
  \/ \E i \in Chunks : WorkerDbClose(i)
  \/ \E i \in Chunks : WorkerStopped(i)
  \/ CloseSampleItemChan
  \/ Finish
  \/ Return

Next ==
  \/ Call
  \/ Pipeline
  \/ Cancel
  \/ CloseDB
  \/ Stop

Spec == Init /\ [][Next]_vars

(***************************************************************************)
(* The same pipeline under the scheduling the Go runtime guarantees: a     *)
(* goroutine that can take a step eventually takes one.  The caller's      *)
(* cancellation, the close of the database and evictions are not forced.   *)
(* Termination depends on the control flow only, so this specification     *)
(* starts from the reserves whose chunks carry distinct data.              *)
(***************************************************************************)
QuietNext ==
  \/ Call
  \/ CallAgain
  \/ IterSend
  \/ IterFinish
  \/ \E i \in Chunks : WorkerFetch(i)
  \/ WorkerExit
  \/ \E i \in Chunks : WorkerSend(i)
  \/ CloseSampleItemChan
  \/ Finish
  \/ Return

\* Repeated calls on a quiescent reserve: no cancellation, no close of the
\* database, no eviction.
SpecQuiet == Init /\ [][QuietNext]_vars

LiveReserves ==
  { r \in Reserves :
      \A j \in DOMAIN r : r[j].defect = "none" => r[j].data = ((j - 1) % MaxData) + 1 }

LiveInit ==
  /\ \E r \in LiveReserves : PipeIdle(MkReserve(r))
  /\ RunsIdle
  /\ IterIdle
  /\ StampIdle
  /\ PresignedIdle
  /\ AuthIdle
  /\ SocIdle

LiveSpec == LiveInit /\ [][Next]_vars /\ WF_vars(Pipeline)

-----------------------------------------------------------------------------
(***************************************************************************)
(* The reserve index iteration of Phase 1: db.pullIndex.Iterate with       *)
(* StartFrom db.addressInBin(storageRadius).  Addresses are AddrBits bits  *)
(* wide and compared as byte strings, that is as numbers.                  *)
(***************************************************************************)
AddrBits == 3

RECURSIVE Pow2(_)
Pow2(n) == IF n = 0 THEN 1 ELSE 2 * Pow2(n - 1)

Addrs == 0..(Pow2(AddrBits) - 1)

\* the k-th leading bit of an address, k = 0 for the first
Bit(a, k) == (a \div Pow2(AddrBits - 1 - k)) % 2

\* proximity order: the number of leading bits two addresses share
po(a, b) ==
  IF a = b THEN AddrBits
  ELSE MinOf({ k \in 0..(AddrBits - 1) : Bit(a, k) # Bit(b, k) })

\* db.addressInBin(bin): a boundary address whose leading bin bits are the
\* node's own prefix.
addressInBin(bin) == { a \in Addrs : po(a, baseKey) >= bin }

\* the addresses the iteration has still to visit, in ascending order from
\* startFrom to the end of the index
Remaining == { a \in pullIndex : a >= startFrom /\ a > lastYield }

\* db.pullIndex.Iterate: the visitor is called with the next address.
IndexNext ==
  /\ Remaining # {}
  /\ LET a == MinOf(Remaining)
     IN  /\ yielded' = yielded \cup {a}
         /\ lastYield' = a
  /\ UNCHANGED <<pipeVars, runVars, stampVars, presignedVars, authVars, socVars, baseKey, storageRadius, startFrom, pullIndex>>

IterInit ==
  /\ PipeIdle(<<>>)
  /\ RunsIdle
  /\ StampIdle
  /\ PresignedIdle
  /\ AuthIdle
  /\ SocIdle
  /\ baseKey \in Addrs
  /\ storageRadius \in 0..(AddrBits - 1)
  /\ startFrom \in addressInBin(storageRadius)
  /\ pullIndex \in { Addrs \ M : M \in {{}} \cup { {a} : a \in Addrs } }
  /\ yielded = {}
  /\ lastYield = -1

IterNext ==
  \/ IndexNext

SpecIter == IterInit /\ [][IterNext]_vars

-----------------------------------------------------------------------------
(***************************************************************************)
(* Concurrent callers of ReserveSample on one DB, with the evicting        *)
(* goroutine.  Each of startSampling, stopSamplingIfRunning and            *)
(* resetSamplingState takes db.lock's lockKeySampling, runs its body and   *)
(* releases the lock.  The pipeline is reduced to what it does with the    *)
(* run state: its workers read db.samplerSignal in their select.           *)
(***************************************************************************)
NumCallers == 2

Callers == 1..NumCallers

Evictor == NumCallers + 1

\* The variables of the other specifications.
RunsUnchanged ==
  UNCHANGED <<iterVars, stampVars, presignedVars, authVars, socVars, reserve, pc, sampleItems, iterPc, iterPos, wk,
              gerr, ctxDone, dbClosed, closeCount, ret, lastSample, cancelled,
              stoppedInRun, metrics>>

\* db.startSampling(): db.lock.Lock(lockKeySampling)
RunStartLock(c) ==
  /\ RunsUnchanged
  /\ callerPc[c] = "idle"
  /\ lockSampling = 0
  /\ lockSampling' = c
  /\ callerPc' = [callerPc EXCEPT ![c] = "starting"]
  /\ UNCHANGED <<callerSaw, evictPc, samplerStop, samplerSignal>>

\* db.startSampling(): the body and the deferred Unlock
RunStart(c) ==
  /\ RunsUnchanged
  /\ callerPc[c] = "starting"
  /\ startSampling
  /\ lockSampling' = 0
  /\ callerPc' = [callerPc EXCEPT ![c] = "pipeline"]
  /\ callerSaw' = [callerSaw EXCEPT ![c] = "none"]
  /\ UNCHANGED evictPc

\* a worker of the caller's pipeline takes the case <-db.samplerSignal
RunObserveStop(c) ==
  /\ RunsUnchanged
  /\ callerPc[c] = "pipeline"
  /\ callerSaw[c] = "none"
  /\ samplerSignal = "closed"
  /\ callerSaw' = [callerSaw EXCEPT ![c] = "stopped"]
  /\ UNCHANGED <<callerPc, lockSampling, evictPc, samplerStop, samplerSignal>>

\* the pipeline ended; deferred db.resetSamplingState(): Lock
RunResetLock(c) ==
  /\ RunsUnchanged
  /\ callerPc[c] = "pipeline"
  /\ lockSampling = 0
  /\ lockSampling' = c
  /\ callerPc' = [callerPc EXCEPT ![c] = "resetting"]
  /\ UNCHANGED <<callerSaw, evictPc, samplerStop, samplerSignal>>

\* db.resetSamplingState(): the body and the deferred Unlock
RunReset(c) ==
  /\ RunsUnchanged
  /\ callerPc[c] = "resetting"
  /\ resetSamplingState
  /\ lockSampling' = 0
  /\ callerPc' = [callerPc EXCEPT ![c] = "idle"]
  /\ UNCHANGED <<callerSaw, evictPc>>

\* db.stopSamplingIfRunning(): Lock
EvictLock ==
  /\ RunsUnchanged
  /\ evictPc = "idle"
  /\ lockSampling = 0
  /\ lockSampling' = Evictor
  /\ evictPc' = "stopping"
  /\ UNCHANGED <<callerPc, callerSaw, samplerStop, samplerSignal>>

\* db.stopSamplingIfRunning(): the body and the deferred Unlock
EvictStop ==
  /\ RunsUnchanged
  /\ evictPc = "stopping"
  /\ stopSamplingIfRunning
  /\ lockSampling' = 0
  /\ evictPc' = "idle"
  /\ UNCHANGED <<callerPc, callerSaw>>

RunsInit ==
  /\ PipeIdle(<<>>)
  /\ IterIdle
  /\ StampIdle
  /\ PresignedIdle
  /\ AuthIdle
  /\ SocIdle
  /\ callerPc = [c \in Callers |-> "idle"]
  /\ callerSaw = [c \in Callers |-> "none"]
  /\ lockSampling = 0
  /\ evictPc = "idle"

RunsNext ==
  \/ \E c \in Callers : RunStartLock(c)
  \/ \E c \in Callers : RunStart(c)
  \/ \E c \in Callers : RunObserveStop(c)
  \/ \E c \in Callers : RunResetLock(c)
  \/ \E c \in Callers : RunReset(c)
  \/ EvictLock
  \/ EvictStop

SpecRuns == RunsInit /\ [][RunsNext]_vars

-----------------------------------------------------------------------------
(***************************************************************************)
(* The stamper of the postage package: stamper.Stamp, called by several    *)
(* goroutines whose stampers issue from one batch, through one issuer      *)
(* object or through different ones.  The stamp store may fail a Get or a  *)
(* Put, and signing may fail.  The deferred unlocks run in reverse order   *)
(* when Stamp returns: StampLocker first, the issuer's mtx second.         *)
(***************************************************************************)
NumStampers == 2

MaxStamps == 3

\* the batch: depth and bucket depth
Depth == 1

BucketDepth == 1

\* every goroutine may have an issuer object of its own
NumIssuers == NumStampers

\* width of a chunk address in bits: the bucket prefix and one more bit, so
\* that every bucket holds two addresses
StampAddrBits == BucketDepth + 1

\* width of the sub-index inside a batch index (4 bytes in the source)
IndexWidth == 2

Stampers == 1..NumStampers

Issuers == 1..NumIssuers

StampAddrs == 0..(Pow2(StampAddrBits) - 1)

Buckets == 0..(Pow2(BucketDepth) - 1)

NoItem == [index |-> -1, ts |-> -1]

\* no lookup made yet
NoBefore == <<>>

NoStamp == [err |-> "none", index |-> -1, ts |-> -1]

\* ToBucket(depth, addr): the leading depth bits of the address
ToBucket(d, a) == a \div Pow2(StampAddrBits - d)

\* indexToBytes(bucket, index): the bucket followed by the sub-index, big endian
indexToBytes(b, i) == b * Pow2(IndexWidth) + i

\* the bucket and the sub-index of a batch index
bucketOf(index) == index \div Pow2(IndexWidth)

subIndexOf(index) == index % Pow2(IndexWidth)

\* the capacity of a bucket: 1 << (depth - bucketDepth)
BucketCap == Pow2(Depth - BucketDepth)

\* issuer.increment(addr): the bucket is full
incrementFull(k, a) == buckets[k][ToBucket(BucketDepth, a)] = BucketCap

\* issuer.increment(addr): the batch index it returns, the next free
\* sub-index of the bucket
incrementIndex(k, a) ==
  indexToBytes(ToBucket(BucketDepth, a), buckets[k][ToBucket(BucketDepth, a)])

\* issuer.increment(addr): the bucket counter advances
incrementBuckets(k, a) ==
  [buckets EXCEPT ![k][ToBucket(BucketDepth, a)] = @ + 1]

\* the variables of the other specifications
StampUnchanged ==
  UNCHANGED <<pipeVars, runVars, iterVars, presignedVars, authVars, socVars>>

\* Stamp: st.issuer.mtx.Lock(), and the StampItem of the call
StampLockIssuer(s, a) ==
  /\ StampUnchanged
  /\ stPc[s] = "idle"
  /\ stCalls < MaxStamps
  /\ issuerMtx[stIssuer[s]] = 0
  /\ issuerMtx' = [issuerMtx EXCEPT ![stIssuer[s]] = s]
  /\ stCalls' = stCalls + 1
  /\ stAddr' = [stAddr EXCEPT ![s] = a]
  /\ stPc' = [stPc EXCEPT ![s] = "lockkey"]
  /\ UNCHANGED stBefore
  /\ UNCHANGED <<stStore, buckets, stampLocker, now, stIssuer, stItem, stPath,
                 stRet>>

\* Stamp without the per-batch key-lock
StampLockKeyNoLock(s) ==
  /\ StampUnchanged
  /\ stPc[s] = "lockkey"
  /\ stPc' = [stPc EXCEPT ![s] = "get"]
  /\ UNCHANGED stBefore
  /\ UNCHANGED <<stStore, buckets, issuerMtx, stampLocker, now, stCalls,
                 stIssuer, stAddr, stItem, stPath, stRet>>

\* Stamp: StampLocker.Lock(lockKey)
StampLockKey(s) ==
  /\ StampUnchanged
  /\ stPc[s] = "lockkey"
  /\ stampLocker = 0
  /\ stampLocker' = s
  /\ stPc' = [stPc EXCEPT ![s] = "get"]
  /\ UNCHANGED stBefore
  /\ UNCHANGED <<stStore, buckets, issuerMtx, now, stCalls, stIssuer, stAddr,
                 stItem, stPath, stRet>>

\* Stamp returns r: the deferred StampLocker.Unlock(lockKey) runs
StampReturn(s, r) ==
  /\ stRet' = [stRet EXCEPT ![s] = r]
  /\ stItem' = [stItem EXCEPT ![s] = NoItem]
  /\ stampLocker' = IF stampLocker = s THEN 0 ELSE stampLocker
  /\ stPc' = [stPc EXCEPT ![s] = "unlock"]

StampError(e) == [err |-> e, index |-> -1, ts |-> -1]

\* Stamp: st.store.Get(item) finds the item or returns ErrNotFound
StampGet(s) ==
  /\ StampUnchanged
  /\ stPc[s] = "get"
  /\ IF stStore[stAddr[s]] = NoItem
     THEN /\ stPath' = [stPath EXCEPT ![s] = "notfound"]
          /\ stPc' = [stPc EXCEPT ![s] = "fresh"]
          /\ UNCHANGED stItem
     ELSE /\ stPath' = [stPath EXCEPT ![s] = "found"]
          /\ stPc' = [stPc EXCEPT ![s] = "increment"]
          /\ stItem' = [stItem EXCEPT ![s] = stStore[stAddr[s]]]
  /\ stBefore' = [stBefore EXCEPT ![s] =
                    [buckets |-> buckets[stIssuer[s]], item |-> stStore[stAddr[s]]]]
  /\ UNCHANGED <<stStore, buckets, issuerMtx, stampLocker, now, stCalls,
                 stIssuer, stAddr, stRet>>

\* Stamp: st.store.Get(item) returns another error
StampGetFail(s) ==
  /\ StampUnchanged
  /\ stPc[s] = "get"
  /\ StampReturn(s, StampError("get"))
  /\ UNCHANGED stBefore
  /\ UNCHANGED <<stStore, buckets, issuerMtx, now, stCalls, stIssuer, stAddr,
                 stPath>>

\* the not-found path taking its index from issuer.increment
StampFreshIncrement(s) ==
  /\ StampUnchanged
  /\ stPc[s] = "fresh"
  /\ IF incrementFull(stIssuer[s], stAddr[s])
     THEN /\ StampReturn(s, StampError("bucketfull"))
          /\ UNCHANGED <<buckets, now>>
     ELSE /\ stItem' = [stItem EXCEPT ![s] =
                          [index |-> incrementIndex(stIssuer[s], stAddr[s]), ts |-> now]]
          /\ buckets' = incrementBuckets(stIssuer[s], stAddr[s])
          /\ now' = now + 1
          /\ stPc' = [stPc EXCEPT ![s] = "put"]
          /\ UNCHANGED <<stampLocker, stRet>>
  /\ UNCHANGED stBefore
  /\ UNCHANGED <<stStore, issuerMtx, stCalls, stIssuer, stAddr, stPath>>

\* Stamp, not found: bucket := ToBucket(BucketDepth, addr);
\* item.BatchIndex = indexToBytes(bucket, 0); item.BatchTimestamp = unixTime()
StampFresh(s) ==
  /\ StampUnchanged
  /\ stPc[s] = "fresh"
  /\ stItem' = [stItem EXCEPT ![s] =
                  [index |-> indexToBytes(ToBucket(BucketDepth, stAddr[s]), 0),
                   ts |-> now]]
  /\ now' = now + 1
  /\ stPc' = [stPc EXCEPT ![s] = "put"]
  /\ UNCHANGED stBefore
  /\ UNCHANGED <<stStore, buckets, issuerMtx, stampLocker, stCalls, stIssuer,
                 stAddr, stPath, stRet>>

\* Stamp, found: st.issuer.increment(addr)
StampIncrement(s) ==
  /\ StampUnchanged
  /\ stPc[s] = "increment"
  /\ IF incrementFull(stIssuer[s], stAddr[s])
     THEN /\ StampReturn(s, StampError("bucketfull"))
          /\ UNCHANGED <<buckets, now>>
     ELSE /\ stItem' = [stItem EXCEPT ![s] =
                          [index |-> incrementIndex(stIssuer[s], stAddr[s]), ts |-> now]]
          /\ buckets' = incrementBuckets(stIssuer[s], stAddr[s])
          /\ now' = now + 1
          /\ stPc' = [stPc EXCEPT ![s] = "put"]
          /\ UNCHANGED <<stampLocker, stRet>>
  /\ UNCHANGED stBefore
  /\ UNCHANGED <<stStore, issuerMtx, stCalls, stIssuer, stAddr, stPath>>

\* Stamp: st.store.Put(item) succeeds
StampPut(s) ==
  /\ StampUnchanged
  /\ stPc[s] = "put"
  /\ stStore' = [stStore EXCEPT ![stAddr[s]] = stItem[s]]
  /\ stPc' = [stPc EXCEPT ![s] = "sign"]
  /\ UNCHANGED stBefore
  /\ UNCHANGED <<buckets, issuerMtx, stampLocker, now, stCalls, stIssuer,
                 stAddr, stItem, stPath, stRet>>

\* Stamp: st.store.Put(item) fails
StampPutFail(s) ==
  /\ StampUnchanged
  /\ stPc[s] = "put"
  /\ StampReturn(s, StampError("put"))
  /\ UNCHANGED stBefore
  /\ UNCHANGED <<stStore, buckets, issuerMtx, now, stCalls, stIssuer, stAddr,
                 stPath>>

\* Stamp: ToSignDigest, Sign and the returned NewStamp
StampSign(s) ==
  /\ StampUnchanged
  /\ stPc[s] = "sign"
  /\ StampReturn(s, [err |-> "nil", index |-> stItem[s].index,
                     ts |-> stItem[s].ts])
  /\ UNCHANGED stBefore
  /\ UNCHANGED <<stStore, buckets, issuerMtx, now, stCalls, stIssuer, stAddr,
                 stPath>>

\* Stamp: ToSignDigest or Sign fails
StampSignFail(s) ==
  /\ StampUnchanged
  /\ stPc[s] = "sign"
  /\ StampReturn(s, StampError("sign"))
  /\ UNCHANGED stBefore
  /\ UNCHANGED <<stStore, buckets, issuerMtx, now, stCalls, stIssuer, stAddr,
                 stPath>>

\* Stamp returned: the deferred st.issuer.mtx.Unlock() runs and the caller
\* takes the result
StampUnlockIssuer(s) ==
  /\ StampUnchanged
  /\ stPc[s] = "unlock"
  /\ issuerMtx' = [issuerMtx EXCEPT ![stIssuer[s]] = 0]
  /\ stPc' = [stPc EXCEPT ![s] = "idle"]
  /\ stAddr' = [stAddr EXCEPT ![s] = 0]
  /\ stPath' = [stPath EXCEPT ![s] = "none"]
  /\ stRet' = [stRet EXCEPT ![s] = NoStamp]
  /\ stBefore' = [stBefore EXCEPT ![s] = NoBefore]
  /\ UNCHANGED <<stStore, buckets, stampLocker, now, stCalls, stIssuer, stItem>>

\* Which issuer object each goroutine's stamper uses.  Issuer objects are
\* interchangeable, so they are numbered in the order of first use.
IssuerChoices ==
  { f \in [Stampers -> Issuers] :
      \A s \in Stampers :
        f[s] = 1 \/ \E t \in 1..(s - 1) : f[t] = f[s] - 1 }

StampInit ==
  /\ PipeIdle(<<>>)
  /\ RunsIdle
  /\ IterIdle
  /\ PresignedIdle
  /\ AuthIdle
  /\ SocIdle
  /\ stStore = [a \in StampAddrs |-> NoItem]
  /\ buckets = [k \in Issuers |-> [b \in Buckets |-> 0]]
  /\ issuerMtx = [k \in Issuers |-> 0]
  /\ stampLocker = 0
  /\ now = 1
  /\ stCalls = 0
  /\ stPc = [s \in Stampers |-> "idle"]
  /\ stIssuer \in IssuerChoices
  /\ stAddr = [s \in Stampers |-> 0]
  /\ stItem = [s \in Stampers |-> NoItem]
  /\ stPath = [s \in Stampers |-> "none"]
  /\ stRet = [s \in Stampers |-> NoStamp]
  /\ stBefore = [s \in Stampers |-> NoBefore]

StampNext ==
  \/ \E s \in Stampers, a \in StampAddrs : StampLockIssuer(s, a)
  \/ \E s \in Stampers : StampLockKey(s)
  \/ \E s \in Stampers : StampGet(s)
  \/ \E s \in Stampers : StampGetFail(s)
  \/ \E s \in Stampers : StampFresh(s)
  \/ \E s \in Stampers : StampIncrement(s)
  \/ \E s \in Stampers : StampPut(s)
  \/ \E s \in Stampers : StampPutFail(s)
  \/ \E s \in Stampers : StampSign(s)
  \/ \E s \in Stampers : StampSignFail(s)
  \/ \E s \in Stampers : StampUnlockIssuer(s)

SpecStamp == StampInit /\ [][StampNext]_vars

-----------------------------------------------------------------------------
(***************************************************************************)
(* The presigned stamper: NewPresignedStamper(stamp, owner) and its Stamp. *)
(* A stamp is described by what its signature was made over and by whom,   *)
(* and by whether a public key can be recovered from it at all.            *)
(***************************************************************************)
NumOwners == 3

Owners == 1..NumOwners

\* the owner recovered from a signature made over another digest: the key
\* of nobody
NoOwner == 0

PresignedStamps == [forAddr : StampAddrs, signer : Owners, sig : {"ok", "bad"}]

\* RecoverBatchOwner(addr, stamp): the owner address recovered from the
\* stamp's signature over the digest of addr and the stamp's fields, or an
\* error when no public key can be recovered from the signature
RecoverBatchOwner(a, st) ==
  IF st.sig = "bad" THEN [err |-> "recover", owner |-> NoOwner]
  ELSE IF a = st.forAddr THEN [err |-> "nil", owner |-> st.signer]
  ELSE [err |-> "nil", owner |-> NoOwner]

NoPresigned == [err |-> "none", stamp |-> <<>>]

\* a presigned Stamp that does not compare the recovered owner
presignedStampNoCompare(a, st, owner) ==
  LET r == RecoverBatchOwner(a, st)
  IN  IF r.err # "nil" THEN [err |-> r.err, stamp |-> <<>>]
      ELSE [err |-> "nil", stamp |-> st]

\* presignedStamper.Stamp(addr) of the stamper {stamp, owner}
presignedStamp(a, st, owner) ==
  LET r == RecoverBatchOwner(a, st)
  IN  IF r.err # "nil" THEN [err |-> r.err, stamp |-> <<>>]
      ELSE IF owner # r.owner
           THEN [err |-> "invalidbatchsignature", stamp |-> <<>>]
           ELSE [err |-> "nil", stamp |-> st]

\* a call of presignedStamper.Stamp(a)
PresignedCall(a) ==
  /\ psAddr' = a
  /\ psRet' = presignedStamp(a, psStamp, psOwner)
  /\ UNCHANGED <<pipeVars, runVars, iterVars, stampVars, authVars, socVars,
                 psStamp, psOwner>>

PresignedInit ==
  /\ PipeIdle(<<>>)
  /\ RunsIdle
  /\ IterIdle
  /\ StampIdle
  /\ AuthIdle
  /\ SocIdle
  /\ psStamp \in PresignedStamps
  /\ psOwner \in Owners
  /\ psAddr = 0
  /\ psRet = NoPresigned

PresignedNext ==
  \/ \E a \in StampAddrs : PresignedCall(a)

SpecPresigned == PresignedInit /\ [][PresignedNext]_vars

-----------------------------------------------------------------------------
(***************************************************************************)
(* The authenticator: GenerateKey, RefreshKey and Enforce.  An API key is  *)
(* the encrypted, base64-encoded authRecord {Role, Expiry}; time is        *)
(* counted in seconds.                                                     *)
(***************************************************************************)
MaxTime == 3

MaxDuration == 2

MaxKeys == 2

Roles == {"role0", "role1"}

Durations == (0 - MaxDuration)..MaxDuration

\* a string that is no key the authenticator issued
Garbage == <<"garbage", "", 0>>

NoKey == <<"", "", 0>>

\* base64(encrypt(json.Marshal(ar)))
ApiKey(ar) == <<"key", ar.Role, ar.Expiry>>

\* base64 decoding, decryption and json.Unmarshal all succeed
Decodes(apiKey) == apiKey[1] = "key"

Decode(apiKey) == [Role |-> apiKey[2], Expiry |-> apiKey[3]]

\* time.Time.After
After(t, u) == t > u

\* the requests of the policy check and the policies applied to the enforcer
Requests == {<<"/bytes/a", "GET">>, <<"/bytes", "POST">>}

Policies == {<<"role0", "/bytes/a", "GET">>, <<"role1", "/bytes", "POST">>}

enforcerEnforce(role, req) == <<role, req[1], req[2]>> \in Policies

generateKey(role, expiryDuration, t, encrypted) ==
  IF expiryDuration = 0
  THEN [key |-> NoKey, err |-> "ErrExpiry"]
  ELSE IF ~encrypted
       THEN [key |-> NoKey, err |-> "encrypt"]
       ELSE [key |-> ApiKey([Role |-> role, Expiry |-> t + expiryDuration]),
             err |-> "nil"]

refreshKey(apiKey, expiryDuration, t, encrypted) ==
  IF expiryDuration = 0
  THEN [key |-> NoKey, err |-> "ErrExpiry"]
  ELSE IF ~Decodes(apiKey)
       THEN [key |-> NoKey, err |-> "decode"]
       ELSE IF After(t, Decode(apiKey).Expiry)
            THEN [key |-> NoKey, err |-> "ErrTokenExpired"]
            ELSE IF ~encrypted
                 THEN [key |-> NoKey, err |-> "encrypt"]
                 ELSE [key |-> ApiKey([Role |-> Decode(apiKey).Role,
                                       Expiry |-> t + expiryDuration]),
                       err |-> "nil"]

enforce(apiKey, req, t) ==
  IF ~Decodes(apiKey)
  THEN [allow |-> FALSE, err |-> "decode"]
  ELSE IF After(t, Decode(apiKey).Expiry)
       THEN [allow |-> FALSE, err |-> "ErrTokenExpired"]
       ELSE [allow |-> enforcerEnforce(Decode(apiKey).Role, req),
             err |-> "nil"]

NoCall ==
  [op |-> "none", d |-> 0, used |-> NoKey, at |-> 0, key |-> NoKey,
   err |-> "none", allow |-> FALSE]

AuthUnchanged ==
  UNCHANGED <<pipeVars, runVars, iterVars, stampVars, presignedVars, socVars>>

\* the keys issued stay within MaxKeys
Issues(r) ==
  /\ r.err = "nil" => (r.key \in authKeys \/ Cardinality(authKeys) < MaxKeys)
  /\ authKeys' = IF r.err = "nil" THEN authKeys \cup {r.key} ELSE authKeys

\* a second passes
AuthTick ==
  /\ authNow < MaxTime
  /\ authNow' = authNow + 1
  /\ UNCHANGED <<authKeys, authRet>>
  /\ AuthUnchanged

AuthGenerateKey(role, d, encrypted) ==
  LET r == generateKey(role, d, authNow, encrypted)
  IN /\ Issues(r)
     /\ authRet' = [op |-> "GenerateKey", d |-> d, used |-> NoKey,
                    at |-> authNow, key |-> r.key, err |-> r.err,
                    allow |-> FALSE]
     /\ UNCHANGED authNow
     /\ AuthUnchanged

AuthRefreshKey(apiKey, d, encrypted) ==
  LET r == refreshKey(apiKey, d, authNow, encrypted)
  IN /\ Issues(r)
     /\ authRet' = [op |-> "RefreshKey", d |-> d, used |-> apiKey,
                    at |-> authNow, key |-> r.key, err |-> r.err,
                    allow |-> FALSE]
     /\ UNCHANGED authNow
     /\ AuthUnchanged

AuthEnforce(apiKey, req) ==
  LET r == enforce(apiKey, req, authNow)
  IN /\ authRet' = [op |-> "Enforce", d |-> 0, used |-> apiKey,
                    at |-> authNow, key |-> NoKey, err |-> r.err,
                    allow |-> r.allow]
     /\ UNCHANGED <<authNow, authKeys>>
     /\ AuthUnchanged

AuthInit ==
  /\ PipeIdle(<<>>)
  /\ RunsIdle
  /\ IterIdle
  /\ StampIdle
  /\ PresignedIdle
  /\ SocIdle
  /\ authNow = 0
  /\ authKeys = {}
  /\ authRet = NoCall

AuthNext ==
  \/ AuthTick
  \/ \E role \in Roles, d \in Durations, encrypted \in BOOLEAN :
       AuthGenerateKey(role, d, encrypted)
  \/ \E apiKey \in authKeys \cup {Garbage}, d \in Durations,
        encrypted \in BOOLEAN :
       AuthRefreshKey(apiKey, d, encrypted)
  \/ \E apiKey \in authKeys \cup {Garbage}, req \in Requests :
       AuthEnforce(apiKey, req)

SpecAuth == AuthInit /\ [][AuthNext]_vars

-----------------------------------------------------------------------------
(***************************************************************************)
(* socUploadHandler.  socTrace lists, in order, the calls the handler made *)
(* with their outcome, <<call, outcome>>, and the responses it wrote,      *)
(* <<writer, status>> with writer "w" or "ow".                             *)
(***************************************************************************)
SpanSize == 8

ChunkSize == 4096

\* body lengths around the two limits
BodyLens ==
  {0, SpanSize - 1, SpanSize, ChunkSize + SpanSize, ChunkSize + SpanSize + 1}

\* params: which of the three mapStructure calls rejects the request;
\* sig: "good", "malformed" (soc.NewSigned fails) or "wrong" (soc.Valid is
\* false)
SocRequests ==
  [params : {"ok", "path", "query", "header"}, pin : BOOLEAN,
   bodyLen : BodyLens, sig : {"good", "malformed", "wrong"}]

\* cac.NewWithDataSpan returns an error
NewWithDataSpanErr(n) == n < SpanSize \/ n > ChunkSize + SpanSize

SocUnchanged ==
  UNCHANGED <<pipeVars, runVars, iterVars, stampVars, presignedVars,
              authVars>>

\* the call succeeded and the handler goes on
SocGoOn(call, next) ==
  /\ socTrace' = Append(socTrace, <<call, "ok">>)
  /\ socPc' = next
  /\ UNCHANGED socReq
  /\ SocUnchanged

\* the call failed: the handler writes one response and returns
SocFail(call, outcome, writer, status) ==
  /\ socTrace' = socTrace \o << <<call, outcome>>, <<writer, status>> >>
  /\ socPc' = "returned"
  /\ UNCHANGED socReq
  /\ SocUnchanged

SocRequest(req) ==
  /\ socPc \in {"idle", "returned"}
  /\ socReq' = req
  /\ socTrace' = <<>>
  /\ socPc' = "mapStructure"
  /\ SocUnchanged

SocParamsFail ==
  /\ socPc = "mapStructure"
  /\ socReq.params # "ok"
  /\ SocFail("mapStructure", socReq.params, "w", "BadRequest")

SocParamsOk ==
  /\ socPc = "mapStructure"
  /\ socReq.params = "ok"
  /\ SocGoOn("mapStructure", IF socReq.pin THEN "NewSession" ELSE "newStamperPutter")

SocNewSession(r) ==
  /\ socPc = "NewSession"
  /\ CASE r = "ok" -> SocGoOn("NewSession", "newStamperPutter")
       [] r = "ErrNotFound" -> SocFail("NewSession", r, "w", "NotFound")
       [] OTHER -> SocFail("NewSession", r, "w", "InternalServerError")

SocNewStamperPutter(r) ==
  /\ socPc = "newStamperPutter"
  /\ CASE r = "ok" -> SocGoOn("newStamperPutter", "ReadAll")
       [] r \in {"errBatchUnusable", "ErrNotUsable"} ->
            SocFail("newStamperPutter", r, "w", "UnprocessableEntity")
       [] r = "ErrNotFound" -> SocFail("newStamperPutter", r, "w", "NotFound")
       [] OTHER -> SocFail("newStamperPutter", r, "w", "BadRequest")

\* "handled": jsonhttp.HandleBodyReadError wrote the response itself
SocReadAll(r) ==
  /\ socPc = "ReadAll"
  /\ CASE r = "ok" -> SocGoOn("ReadAll", "length")
       [] r = "handled" -> SocFail("ReadAll", r, "ow", "RequestEntityTooLarge")
       [] OTHER -> SocFail("ReadAll", r, "ow", "InternalServerError")

SocCheckLength ==
  /\ socPc = "length"
  /\ IF socReq.bodyLen < SpanSize
     THEN SocFail("length", "short", "ow", "BadRequest")
     ELSE IF socReq.bodyLen > ChunkSize + SpanSize
          THEN SocFail("length", "long", "ow", "RequestEntityTooLarge")
          ELSE SocGoOn("length", "NewWithDataSpan")

SocNewWithDataSpan ==
  /\ socPc = "NewWithDataSpan"
  /\ IF NewWithDataSpanErr(socReq.bodyLen)
     THEN SocFail("NewWithDataSpan", "err", "ow", "BadRequest")
     ELSE SocGoOn("NewWithDataSpan", "NewSigned")

SocNewSigned ==
  /\ socPc = "NewSigned"
  /\ IF socReq.sig = "malformed"
     THEN SocFail("NewSigned", "err", "ow", "Unauthorized")
     ELSE SocGoOn("NewSigned", "Chunk")

SocChunk(ok) ==
  /\ socPc = "Chunk"
  /\ IF ok
     THEN SocGoOn("Chunk", "Valid")
     ELSE SocFail("Chunk", "err", "ow", "InternalServerError")

\* a variant that puts the chunk whatever soc.Valid says
SocValidIgnored ==
  /\ socPc = "Valid"
  /\ socTrace' = Append(socTrace,
                        <<"Valid", IF socReq.sig = "good" THEN "ok" ELSE "invalid">>)
  /\ socPc' = "Put"
  /\ UNCHANGED socReq
  /\ SocUnchanged

SocValid ==
  /\ socPc = "Valid"
  /\ IF socReq.sig = "good"
     THEN SocGoOn("Valid", "Put")
     ELSE SocFail("Valid", "invalid", "ow", "Unauthorized")

SocPut(ok) ==
  /\ socPc = "Put"
  /\ IF ok
     THEN SocGoOn("Put", "Done")
     ELSE SocFail("Put", "err", "ow", "BadRequest")

SocDone(ok) ==
  /\ socPc = "Done"
  /\ IF ok
     THEN SocGoOn("Done", "Created")
     ELSE SocFail("Done", "err", "ow", "InternalServerError")

SocCreated ==
  /\ socPc = "Created"
  /\ socTrace' = Append(socTrace, <<"w", "Created">>)
  /\ socPc' = "returned"
  /\ UNCHANGED socReq
  /\ SocUnchanged

SocInit ==
  /\ PipeIdle(<<>>)
  /\ RunsIdle
  /\ IterIdle
  /\ StampIdle
  /\ PresignedIdle
  /\ AuthIdle
  /\ socPc = "idle"
  /\ socReq \in SocRequests
  /\ socTrace = <<>>

SocNext ==
  \/ \E req \in SocRequests : SocRequest(req)
  \/ SocParamsFail
  \/ SocParamsOk
  \/ \E r \in {"ok", "ErrNotFound", "err"} : SocNewSession(r)
  \/ \E r \in {"ok", "errBatchUnusable", "ErrNotUsable", "ErrNotFound",
               "errInvalidPostageBatch", "err"} : SocNewStamperPutter(r)
  \/ \E r \in {"ok", "handled", "err"} : SocReadAll(r)
  \/ SocCheckLength
  \/ SocNewWithDataSpan
  \/ SocNewSigned
  \/ \E ok \in BOOLEAN : SocChunk(ok)
  \/ SocValid
  \/ \E ok \in BOOLEAN : SocPut(ok)
  \/ \E ok \in BOOLEAN : SocDone(ok)
  \/ SocCreated

SpecSoc == SocInit /\ [][SocNext]_vars

-----------------------------------------------------------------------------
(***************************************************************************)
(* Properties.                                                             *)
(***************************************************************************)
\* A chunk of the reserve is eligible: fetchable, stamped no later than the
\* consensus time, with a valid stamp and valid content.
Eligible ==
  { i \in DOMAIN reserve :
      /\ reserve[i].found
      /\ reserve[i].ts <= consensusTime
      /\ validStamp(reserve[i])
      /\ validChunk(reserve[i]) }

TAs(items) == [k \in 1..Len(items) |-> TransformedAddress(items[k])]

RECURSIVE SmallestTAs(_, _)
\* the k smallest transformed addresses of the chunks S, ascending
SmallestTAs(S, k) ==
  IF k = 0 \/ S = {} THEN <<>>
  ELSE LET m == CHOOSE i \in S :
                  \A j \in S : TransformedAddress(i) <= TransformedAddress(j)
       IN  <<TransformedAddress(m)>> \o SmallestTAs(S \ {m}, k - 1)

Returned == pc \in {"deferred", "returned"}

Range(q) == { q[k] : k \in 1..Len(q) }

\* C1: with at least sampleSize eligible chunks in the reserve, a run that
\* returns without error returns exactly sampleSize items, and their
\* transformed addresses are the sampleSize smallest transformed addresses
\* of the eligible chunks, whatever the interleaving of the stages.
C1_TopK ==
  (Returned /\ ret.err = "nil" /\ Cardinality(Eligible) >= sampleSize)
    => /\ Len(ret.items) = sampleSize
       /\ TAs(ret.items) = SmallestTAs(Eligible, sampleSize)

\* a run returned a sample of a reserve with more eligible chunks than fit
C1_Overflow ==
  /\ Returned
  /\ ret.err = "nil"
  /\ Cardinality(Eligible) > sampleSize
  /\ Len(ret.items) = sampleSize

Ascending(items) ==
  \A k \in 1..(Len(items) - 1) :
    TransformedAddress(items[k]) < TransformedAddress(items[k + 1])

\* C2: the sample buffer and the returned sample hold at most sampleSize
\* entries, strictly ascending by transformed address.
C2_StrictlyAscending ==
  /\ Len(sampleItems) <= sampleSize
  /\ Ascending(sampleItems)
  /\ Len(ret.items) <= sampleSize
  /\ Ascending(ret.items)

\* C3: a run over the same reserve with the same arguments returns the
\* Sample an earlier run returned: same items in the same order, same
\* sampleContent, same hash.
C3_SameSample ==
  (Returned /\ ret.err = "nil" /\ lastSample.err = "nil") => ret = lastSample

\* the worker holding address i left its state p in this step
Left(p, i) == BagIn(W(p, i), wk) /\ ~BagIn(W(p, i), wk')

\* C4: no entry a worker forwards, no entry of the sample buffer and no item
\* of a returned sample has a stamp timestamp greater than consensusTime;
\* a fetched chunk whose timestamp equals consensusTime is forwarded.
C4_ConsensusTime ==
  /\ [](/\ \A s \in BagToSet(wk) :
             s.pc = "select" => reserve[s.item].ts <= consensusTime
        /\ \A i \in Range(sampleItems) \cup Range(ret.items) :
             reserve[i].ts <= consensusTime)
  /\ [][\A i \in DOMAIN reserve :
          (Left("fetch", i) /\ reserve[i].found /\ reserve[i].ts = consensusTime)
            => BagIn(W("select", i), wk')]_vars

\* a sample was returned that holds a chunk stamped exactly at the consensus
\* time, from a reserve with a later chunk whose transformed address would
\* have placed it in the sample
C4_Witness ==
  /\ Returned
  /\ ret.err = "nil"
  /\ \E i \in Range(ret.items) : reserve[i].ts = consensusTime
  /\ \E i \in DOMAIN reserve :
       /\ reserve[i].found
       /\ reserve[i].ts > consensusTime
       /\ \E j \in Range(ret.items) : TransformedAddress(i) < TransformedAddress(j)

\* C5: every entry of the sample buffer and of a returned sample has a
\* valid stamp and is a valid CAC or SOC; receiving an entry that fails
\* either check leaves the sample buffer as it was.
C5_ValidOnly ==
  /\ [](\A i \in Range(sampleItems) \cup Range(ret.items) :
          validStamp(reserve[i]) /\ validChunk(reserve[i]))
  /\ [][\A i \in DOMAIN reserve :
          (Left("select", i) /\ ~(validStamp(reserve[i]) /\ validChunk(reserve[i])))
            => sampleItems' = sampleItems]_vars

\* a sample was returned although a forwarded chunk with a bad stamp or bad
\* content had a transformed address smaller than one of the returned items
C5_Witness ==
  /\ Returned
  /\ ret.err = "nil"
  /\ \E i \in DOMAIN reserve :
       /\ reserve[i].found
       /\ reserve[i].ts <= consensusTime
       /\ ~(validStamp(reserve[i]) /\ validChunk(reserve[i]))
       /\ \E j \in Range(ret.items) : TransformedAddress(i) < TransformedAddress(j)

\* C6: every address the index iteration yields shares at least
\* storageRadius leading bits with the node's address.
C6_InsideRadius ==
  \A a \in yielded : po(a, baseKey) >= storageRadius

\* C7: a run, with no other signal, whose context the caller cancelled while
\* Stage A was iterating returns the context-cancellation error, no sample.
C7_CancelledReturnsError ==
  (Returned /\ cancelled = "iterating" /\ ~dbClosed /\ ~stoppedInRun)
    => ret.err = "ctx"

\* C8: a run, with no other signal, during which stopSamplingIfRunning
\* closed the sampler signal (Stage A still iterating) returns the
\* sampler-stopped error, no sample.
C8_StoppedReturnsError ==
  (Returned /\ stoppedInRun /\ ~dbClosed /\ cancelled = "no")
    => ret.err = "stopped"

\* C9: every run returns, under any cancellation, close, stop and worker
\* error; when it has returned, the iterator and all workers have returned
\* and sampleItemChan was closed exactly once.
C9_Terminates ==
  /\ [](closeCount <= 1)
  /\ [](pc = "returned" => (AllReturned /\ closeCount = 1))
  /\ ((pc = "phase3") ~> (pc = "returned"))

\* a run returned an error after the caller cancelled, the database was
\* closed and the sampler was stopped, all within the run
C9_Witness ==
  /\ pc = "returned"
  /\ ret.err \notin {"nil", "none"}
  /\ cancelled # "no"
  /\ dbClosed
  /\ stoppedInRun

\* C10: at most one caller is between startSampling and the end of
\* resetSamplingState.
C10_OneActiveRun ==
  Cardinality({ c \in DOMAIN callerPc : callerPc[c] \in {"pipeline", "resetting"} }) <= 1

\* the smaller of two numbers
Min2(a, b) == IF a < b THEN a ELSE b

\* C11: with no cancellation, close or stop, a run over a reserve that
\* holds chunks that cannot be fetched, are stamped after the consensus
\* time, or have an invalid stamp or invalid content returns no error but a
\* sample of eligible chunks only, as many as fit; no error is recorded
\* while the run is under way.
C11_SkipsBadItems ==
  /\ gerr = "nil"
  /\ Returned =>
       /\ ret.err = "nil"
       /\ Range(ret.items) \subseteq Eligible
       /\ Len(ret.items) = Min2(sampleSize, Cardinality(Eligible))

\* a run returned a non-empty sample of a reserve with an ineligible chunk
\* that a worker received
C11_Witness ==
  /\ Returned
  /\ ret.err = "nil"
  /\ ret.items # <<>>
  /\ iterPos > Len(reserve)
  /\ \E i \in DOMAIN reserve : i \notin Eligible

\* C12: a Stamp call that finds a stored item for its address (a replay)
\* issues a batch index strictly greater than the stored one, stores the
\* new index and timestamp in place of the old item, and returns that index.
C12_ReplayAdvances ==
  [][\A s \in DOMAIN stPc :
       /\ (stPc[s] = "increment" /\ stPc'[s] = "put")
            => stItem'[s].index > stItem[s].index
       /\ (stPath[s] = "found" /\ stPc[s] = "put" /\ stPc'[s] = "sign")
            => stStore'[stAddr[s]] = stItem[s]
       /\ (stPath[s] = "found" /\ stPc[s] = "sign" /\ stRet'[s].err = "nil")
            => stRet'[s].index = stItem[s].index]_vars

\* the addresses of bucket b that have a stored StampItem
StampedIn(b) ==
  { a \in DOMAIN stStore : stStore[a] # NoItem /\ ToBucket(BucketDepth, a) = b }

\* C13: once 1 << (depth - bucketDepth) distinct addresses of a bucket are
\* stamped, a Stamp call for a further address of that bucket, one with no
\* stored item, returns BucketFull.
C13_BucketSaturation ==
  [][\A s \in DOMAIN stPc :
       (/\ stPc[s] = "fresh"
        /\ stPc'[s] # "fresh"
        /\ Cardinality(StampedIn(ToBucket(BucketDepth, stAddr[s]))) >= BucketCap)
         => stRet'[s].err = "bucketfull"]_vars

\* the positions of Stamp between store.Get and store.Put
LookupStore == {"get", "fresh", "increment", "put"}

PresignedReturned == psRet # <<>> /\ psRet # NoPresigned

\* no step changes the presigned stamper, the stamp store or the issuers
PresignedReadOnly ==
  /\ psStamp' = psStamp
  /\ psOwner' = psOwner
  /\ UNCHANGED stampVars

\* C15: the presigned Stamp returns the provided stamp unchanged if the
\* owner recovered for the address and the stamp equals the declared owner,
\* in every other case InvalidBatchSignature and no stamp; it changes no
\* state.
C15_PresignedIff ==
  /\ [](PresignedReturned =>
         LET r == RecoverBatchOwner(psAddr, psStamp)
         IN  IF r.err = "nil" /\ r.owner = psOwner
             THEN psRet = [err |-> "nil", stamp |-> psStamp]
             ELSE psRet = [err |-> "invalidbatchsignature", stamp |-> <<>>])
  /\ [][PresignedReadOnly]_vars

\* C15 as amended: when no owner can be recovered the call returns the
\* recovery error instead of InvalidBatchSignature.
C15_PresignedAmended ==
  /\ [](PresignedReturned =>
         LET r == RecoverBatchOwner(psAddr, psStamp)
         IN  IF r.err # "nil"
             THEN psRet = [err |-> r.err, stamp |-> <<>>]
             ELSE IF r.owner = psOwner
                  THEN psRet = [err |-> "nil", stamp |-> psStamp]
                  ELSE psRet = [err |-> "invalidbatchsignature", stamp |-> <<>>])
  /\ [][PresignedReadOnly]_vars

\* a stamp signed for the address by one owner, presented with another
\* declared owner, was refused
C15_Witness ==
  /\ PresignedReturned
  /\ psStamp.sig = "ok"
  /\ psStamp.forAddr = psAddr
  /\ psStamp.signer # psOwner
  /\ psRet.err = "invalidbatchsignature"

\* the batch index is that of the first slot of the address's bucket
FirstOfBucket(index, a) ==
  /\ bucketOf(index) = ToBucket(BucketDepth, a)
  /\ subIndexOf(index) = 0

\* C16: a Stamp call that finds no stored item for its address stores and
\* returns a batch index whose bucket is ToBucket(bucketDepth, addr) and
\* whose sub-index is 0, and none of its steps changes a bucket counter.
C16_FreshIndex ==
  /\ [](\A s \in DOMAIN stPc :
          (stPath[s] = "notfound" /\ stPc[s] = "sign")
            => /\ stStore[stAddr[s]] = stItem[s]
               /\ FirstOfBucket(stStore[stAddr[s]].index, stAddr[s]))
  /\ [][\A s \in DOMAIN stPc :
          /\ (stPath[s] = "notfound" /\ stPc[s] = "sign" /\ stRet'[s].err = "nil")
               => /\ stRet'[s].index = stStore[stAddr[s]].index
                  /\ FirstOfBucket(stRet'[s].index, stAddr[s])
          /\ (stPath'[s] = "notfound" /\ stPc'[s] # stPc[s])
               => buckets' = buckets]_vars

\* a call for a fresh address of a bucket other than the first returned
\* sub-index 0 although its issuer's counter of that bucket had advanced
C16_Witness ==
  \E s \in DOMAIN stPc :
    /\ stPc[s] = "unlock"
    /\ stPath[s] = "notfound"
    /\ stRet[s].err = "nil"
    /\ ToBucket(BucketDepth, stAddr[s]) > 0
    /\ buckets[stIssuer[s]][ToBucket(BucketDepth, stAddr[s])] > 0

\* C17: a goroutine holds an issuer's mutex only while it holds the batch
\* key-lock (the key-lock is taken first and released last), and a
\* goroutine that is not inside Stamp holds neither.
C17_LockOrder ==
  /\ \A k \in DOMAIN issuerMtx :
       issuerMtx[k] # 0 => stampLocker = issuerMtx[k]
  /\ \A s \in DOMAIN stPc :
       stPc[s] = "idle" => (stampLocker # s /\ issuerMtx[stIssuer[s]] # s)

\* the three signals of the pipeline that have fired
Fired ==
  { sig \in {"ctx", "close", "stop"} :
      \/ sig = "ctx" /\ ctxDone
      \/ sig = "close" /\ dbClosed
      \/ sig = "stop" /\ samplerSignal = "closed" }

\* Stage A is at its send of an address and gives up
StageAGivesUp ==
  /\ iterPc = "run"
  /\ iterPos <= Len(reserve)
  /\ Next
  /\ iterPc' = "done"

\* a worker at position p gives up: it returns while the channel it waits
\* for is still open
WorkerGivesUp(p, i) ==
  /\ BagIn(W(p, i), wk)
  /\ Next
  /\ CopiesIn(W(p, i), wk') < CopiesIn(W(p, i), wk)
  /\ CopiesIn(W("done", 0), wk') > CopiesIn(W("done", 0), wk)

\* Stage C is at its receive of an entry and gives up
StageCGivesUp ==
  /\ pc = "phase3"
  /\ closeCount = 0
  /\ Next
  /\ pc' = "deferred"

\* a signal alone has fired
Only(sig) == Fired = {sig}

\* C18: at each blocking channel operation of the pipeline, Stage A's send,
\* a worker's receive and send, Stage C's receive, each of the three
\* signals, once fired, lets the goroutine leave the operation.
C18_SelectsAllSignals ==
  \A sig \in {"ctx", "close", "stop"} :
    Only(sig) =>
      /\ (iterPc = "run" /\ iterPos <= Len(reserve)) => ENABLED StageAGivesUp
      /\ (BagIn(W("recv", 0), wk) /\ iterPc = "run")
           => ENABLED WorkerGivesUp("recv", 0)
      /\ \A i \in DOMAIN reserve :
           BagIn(W("select", i), wk) => ENABLED WorkerGivesUp("select", i)
      /\ (pc = "phase3" /\ closeCount = 0) => ENABLED StageCGivesUp

\* the evicting goroutine completes a stopSamplingIfRunning in this step
StopCompletes == evictPc = "stopping" /\ evictPc' = "idle"

\* C19: the stop latch is nil exactly when the signal channel is nil, and
\* the signal is nil, open or closed; the signal is closed only from open
\* and with the latch of the run not yet fired, so at most once per run; a
\* stop on a fired latch changes nothing.
C19_RunState ==
  /\ []((samplerStop = "nil") <=> (samplerSignal = "nil"))
  /\ [](samplerSignal \in {"nil", "open", "closed"})
  /\ [][(samplerSignal' # samplerSignal /\ samplerSignal' \notin {"nil", "open"})
          => /\ samplerSignal = "open"
             /\ samplerStop = "armed"
             /\ samplerSignal' = "closed"
             /\ samplerStop' = "fired"]_vars
  /\ [][(StopCompletes /\ samplerStop = "fired")
          => UNCHANGED <<samplerStop, samplerSignal>>]_vars

\* a caller's pipeline saw the signal closed by a first stop, and the
\* evicting goroutine is inside a further stop on the fired latch
C19_Witness ==
  /\ evictPc = "stopping"
  /\ samplerStop = "fired"
  /\ samplerSignal = "closed"
  /\ \E c \in DOMAIN callerSaw : callerSaw[c] = "stopped"

\* C20: the step that ends a call's resetSamplingState leaves latch and
\* signal nil, whatever the pipeline saw, and with no call under way both
\* are nil; a stop that finds the latch nil changes nothing; the step that
\* ends startSampling leaves a fresh latch and an open signal; no caller
\* holds the sampling lock while its pipeline runs.
C20_Lifecycle ==
  /\ []((\A c \in DOMAIN callerPc : callerPc[c] = "idle")
          => (samplerStop = "nil" /\ samplerSignal = "nil"))
  /\ [](\A c \in DOMAIN callerPc : callerPc[c] = "pipeline" => lockSampling # c)
  /\ [][\A c \in DOMAIN callerPc :
          /\ (callerPc[c] = "resetting" /\ callerPc'[c] = "idle")
               => (samplerStop' = "nil" /\ samplerSignal' = "nil")
          /\ (callerPc[c] = "starting" /\ callerPc'[c] = "pipeline")
               => (samplerStop' = "armed" /\ samplerSignal' = "open")]_vars
  /\ [][(StopCompletes /\ samplerStop = "nil")
          => UNCHANGED <<samplerStop, samplerSignal>>]_vars

\* a run began with an open signal after an earlier run had been stopped
\* and had returned
C20_Witness ==
  \E c, d \in DOMAIN callerPc :
    /\ c # d
    /\ callerPc[c] = "idle"
    /\ callerSaw[c] = "stopped"
    /\ callerPc[d] = "pipeline"
    /\ samplerStop = "armed"
    /\ samplerSignal = "open"
    /\ lockSampling = 0

\* C21: a returned sample's content is, item by item, the chunk address
\* followed by the transformed address (two 32-byte words, 64 bytes, per
\* item) and its hash is the content address of that content; it is
\* returned only when the iterator and all workers returned without error;
\* a run over the empty reserve returns no error, no items, empty content.
C21_SampleContent ==
  /\ (Returned /\ ret.err = "nil") =>
       /\ Len(ret.content) = 2 * Len(ret.items)
       /\ \A k \in 1..Len(ret.items) :
            /\ ret.content[2 * k - 1] = ret.items[k]
            /\ ret.content[2 * k] = TransformedAddress(ret.items[k])
       /\ ret.hash = CacAddress(ret.content)
       /\ AllReturned
       /\ gerr = "nil"
       /\ closeCount = 1
  /\ (Returned /\ reserve = <<>>) =>
       /\ ret.err = "nil"
       /\ ret.items = <<>>
       /\ ret.content = <<>>

\* a sample of two items was returned
C21_Witness ==
  /\ Returned
  /\ ret.err = "nil"
  /\ Len(ret.items) >= 2
  /\ Len(ret.content) >= 4

\* the call of s changed its issuer's counters / the stored item of its
\* address, as of the state after the step
CountersChanged(s) == buckets'[stIssuer[s]] # stBefore[s].buckets

StoredChanged(s) == stStore'[stAddr[s]] # stBefore[s].item

\* C22: when a Stamp call that found a stored item returns, either it has
\* advanced the bucket counter and overwritten the stored item, or it has
\* changed neither; if it returns an error it has changed neither.
C22_ChangeTogether ==
  [][\A s \in DOMAIN stPc :
       (stPath[s] = "found" /\ stPc[s] # "unlock" /\ stPc'[s] = "unlock")
         => /\ CountersChanged(s) <=> StoredChanged(s)
            /\ stRet'[s].err # "nil" => (~CountersChanged(s) /\ ~StoredChanged(s))]_vars

IssuingCall == authRet.op \in {"GenerateKey", "RefreshKey"}

\* the last call presented a key whose expiry had passed
PresentedExpired ==
  /\ authRet.op \in {"RefreshKey", "Enforce"}
  /\ Decodes(authRet.used)
  /\ authRet.at > Decode(authRet.used).Expiry

\* C24: GenerateKey and RefreshKey answer every non-positive expiry duration
\* with ErrExpiry; a key they issue expires after the time of issue; and
\* RefreshKey and Enforce do not accept a key whose expiry has passed: they
\* return ErrTokenExpired (RefreshKey with a rejected duration, ErrExpiry).
C24_PositiveExpiry ==
  /\ (IssuingCall /\ authRet.d <= 0) => authRet.err = "ErrExpiry"
  /\ (IssuingCall /\ authRet.err = "nil") =>
       Decode(authRet.key).Expiry > authRet.at
  /\ PresentedExpired =>
       /\ authRet.err \in {"ErrTokenExpired", "ErrExpiry"}
       /\ authRet.err = "ErrExpiry" => authRet.op = "RefreshKey"
       /\ ~authRet.allow
       /\ authRet.key = NoKey

\* the k-th thing the handler did is a response / a failed call
IsResponse(k) == socTrace[k][1] \in {"w", "ow"}

IsFailure(k) == ~IsResponse(k) /\ socTrace[k][2] # "ok"

\* the handler did ev before its k-th step
Before(ev, k) == \E j \in 1..(k - 1) : socTrace[j] = ev

\* C25: putter.Put is called only after the body length was found within
\* [SpanSize, ChunkSize+SpanSize] and cac.NewWithDataSpan, soc.NewSigned and
\* soc.Valid succeeded; putter.Done only after Put succeeded; the Created
\* response only after Done succeeded; a failed call is followed by exactly
\* one error response, which is the last thing the handler does, and a
\* handler that returned has written exactly one response.
C25_UploadOrder ==
  /\ \A k \in DOMAIN socTrace :
       /\ socTrace[k][1] = "Put" =>
            /\ socReq.bodyLen \in SpanSize..(ChunkSize + SpanSize)
            /\ Before(<<"length", "ok">>, k)
            /\ Before(<<"NewWithDataSpan", "ok">>, k)
            /\ Before(<<"NewSigned", "ok">>, k)
            /\ Before(<<"Valid", "ok">>, k)
       /\ socTrace[k][1] = "Done" => Before(<<"Put", "ok">>, k)
       /\ socTrace[k] = <<"w", "Created">> => Before(<<"Done", "ok">>, k)
       /\ IsResponse(k) => (k = Len(socTrace) /\ socPc = "returned")
       /\ IsFailure(k) =>
            /\ k + 1 = Len(socTrace)
            /\ IsResponse(k + 1)
            /\ socTrace[k + 1][2] # "Created"
  /\ socPc = "returned" =>
       (Len(socTrace) > 0 /\ IsResponse(Len(socTrace)))

C25_Witness ==
  /\ socPc = "returned"
  /\ socTrace[Len(socTrace)] = <<"w", "Created">>
  /\ Before(<<"Put", "ok">>, Len(socTrace))

=============================================================================
